---- MODULE Spec2Model ----
(***************************************************************************)
(* Model of pkg/ui/react-app/src/pages/graph/ExpressionInput.tsx:          *)
(*   - CustomHTTPPrometheusClient, the metadata client: Spec (every       *)
(*     operation and every answer), SpecOverlap (overlapping invocations)  *)
(*     and SpecHeaders (every setHeader against requests in flight);       *)
(*   - HistoryCompleteStrategy, the history completion decorator:          *)
(*     SpecHistory.                                                        *)
(*                                                                         *)
(* A JavaScript string that the code takes apart or compares is the        *)
(* sequence of its UTF-16 code units; a string it only passes on (a metric *)
(* name, a message, a status text, a parameter key) is a TLA+ string.      *)
(* Other values are records [t, v]: arrays [t |-> "array", v |-> <<...>>], *)
(* plain objects as their entries in insertion order                       *)
(* [t |-> "object", v |-> << <<key, value>>, ... >>] and Error objects     *)
(* [t |-> "error", v |-> message].  An optional value is a sequence of     *)
(* length 0 (undefined) or 1.  A promise that has settled is a record      *)
(* [state |-> "fulfilled" | "rejected", value |-> ...].                    *)
(*                                                                         *)
(* One step of the model is one task of the event loop together with the   *)
(* promise reactions it sets off: the reactions of one chain that follow   *)
(* each other without waiting for input/output read and write only the     *)
(* values of that chain.  The chain of an operation waits twice, for the   *)
(* transport to answer and for the body to arrive.                         *)
(***************************************************************************)
EXTENDS Integers, Sequences, FiniteSets, TLC

\* ------------------------------------------------------------------ bounds
\* Number of client operations invoked in one behaviour of Spec.
MaxCalls == 1
\* Number of client operations invoked, and so the number that can overlap,
\* in one behaviour of SpecOverlap and of SpecHeaders.
MaxOverlap == 2

\* --------------------------------------------------------------- constants
badRequest == 400
unprocessableEntity == 422
serviceUnavailable == 503
\* 60 * 60 * 1000 * 12, the field initialiser of lookbackInterval
DefaultLookbackInterval == 43200000

None == <<>>
Some(x) == <<x>>

Arr(items) == [t |-> "array", v |-> items]
Obj(entries) == [t |-> "object", v |-> entries]
Error(message) == [t |-> "error", v |-> message]

Fulfilled(v) == [state |-> "fulfilled", value |-> v]
Rejected(e) == [state |-> "rejected", value |-> e]

MissingErrorField == "missing \"error\" field in response JSON"
MissingDataField == "missing \"data\" field in response JSON"

\* The strings of the source, as code units.
\* '/api/v1'
DefaultApiPrefix == <<47, 97, 112, 105, 47, 118, 49>>
\* '/labels'
LabelsSuffix == <<47, 108, 97, 98, 101, 108, 115>>
\* '/label/:name/values'
LabelValuesSuffix == <<47, 108, 97, 98, 101, 108, 47, 58, 110, 97, 109, 101, 47, 118, 97, 108, 117, 101, 115>>
\* '/series'
SeriesSuffix == <<47, 115, 101, 114, 105, 101, 115>>
\* '/metadata'
MetadataSuffix == <<47, 109, 101, 116, 97, 100, 97, 116, 97>>
\* '/status/flags'
FlagsSuffix == <<47, 115, 116, 97, 116, 117, 115, 47, 102, 108, 97, 103, 115>>
\* ':name', the source of the regular expression /:name/gi
NamePattern == <<58, 110, 97, 109, 101>>
\* '__name__'
ReservedName == <<95, 95, 110, 97, 109, 101, 95, 95>>

VARIABLES
    client,          \* the readonly fields set by the constructor
    requestHeaders,  \* the Headers object: header name -> value
    invoked,         \* number of public operations invoked so far
    transportCalls,  \* number of times fetchFn was called
    pending,         \* invocations whose promise has not settled
    settled,         \* the most recently settled invocation, as its caller sees it
    strategies,      \* the HistoryCompleteStrategy objects: their queryHistory arrays
    completing,      \* promQL() calls whose wrapped strategy has not resolved
    completion       \* the promQL() call that resolved last

clientVars == <<client, requestHeaders, invoked, transportCalls, pending, settled>>
historyVars == <<strategies, completing, completion>>
vars == <<client, requestHeaders, invoked, transportCalls, pending, settled,
          strategies, completing, completion>>

\* ------------------------------------------------------------ construction
\* PrometheusConfig values the client is constructed with.  A field left out
\* of the config is None.  An injected fetchFn is any function of the FetchFn
\* type; the type does not say when it reads the headers of init, so the
\* injected one is "deferred": it sends, and reads init.headers, at some
\* moment after the call, as early as the next step.
Config(h, l, m, f) ==
    [url |-> None, httpErrorHandler |-> h, lookbackInterval |-> l,
     httpMethod |-> m, apiPrefix |-> None, fetchFn |-> f]
Configs ==
    { Config(FALSE, None, None, None),
      Config(TRUE, None, Some("POST"), Some("deferred")),
      Config(TRUE, Some(3600000), Some("GET"), None),
      Config(FALSE, None, Some("GET"), None) }

\* The fields are assigned where the config value is truthy.
Constructor(config) ==
    [url |-> IF config.url # None /\ config.url[1] # <<>> THEN config.url[1] ELSE <<>>,
     errorHandler |-> config.httpErrorHandler,
     lookbackInterval |-> IF config.lookbackInterval # None /\ config.lookbackInterval[1] # 0
                          THEN config.lookbackInterval[1]
                          ELSE DefaultLookbackInterval,
     fetchFn |-> IF config.fetchFn # None THEN config.fetchFn[1] ELSE "fetch",
     httpMethod |-> IF config.httpMethod # None /\ config.httpMethod[1] # ""
                    THEN config.httpMethod[1]
                    ELSE "POST",
     apiPrefix |-> IF config.apiPrefix # None /\ config.apiPrefix[1] # <<>>
                   THEN config.apiPrefix[1]
                   ELSE DefaultApiPrefix]

\* new Headers(): no header set.
EmptyHeaders == [n \in {} |-> <<>>]

\* --------------------------------------------------------------- endpoints
labelsEndpoint(c) == c.apiPrefix \o LabelsSuffix
labelValuesEndpoint(c) == c.apiPrefix \o LabelValuesSuffix
seriesEndpoint(c) == c.apiPrefix \o SeriesSuffix
metricMetadataEndpoint(c) == c.apiPrefix \o MetadataSuffix
flagsEndpoint(c) == c.apiPrefix \o FlagsSuffix

\* ---------------------------------------------------- String.prototype.replace
\* Case-insensitive comparison of the i flag, on the letters of the pattern.
LowerCase(u) == IF u \in 65..90 THEN u + 32 ELSE u

\* Whether /:name/i matches s at position i.
MatchesAt(s, i) ==
    /\ i + Len(NamePattern) - 1 <= Len(s)
    /\ \A k \in 1..Len(NamePattern) : LowerCase(s[i + k - 1]) = NamePattern[k]

\* GetSubstitution for a pattern without capture groups: the replacement
\* text with $$ for "$", $& for the match, $` for what precedes the match
\* and $' for what follows it; any other "$" stands for itself.
RECURSIVE Substitution(_, _, _, _)
Substitution(replacement, j, s, i) ==
    IF j > Len(replacement) THEN <<>>
    ELSE IF replacement[j] = 36 /\ j < Len(replacement)
    THEN LET next == replacement[j + 1] IN
         IF next = 36
         THEN <<36>> \o Substitution(replacement, j + 2, s, i)
         ELSE IF next = 38
         THEN SubSeq(s, i, i + Len(NamePattern) - 1)
              \o Substitution(replacement, j + 2, s, i)
         ELSE IF next = 96
         THEN SubSeq(s, 1, i - 1) \o Substitution(replacement, j + 2, s, i)
         ELSE IF next = 39
         THEN SubSeq(s, i + Len(NamePattern), Len(s))
              \o Substitution(replacement, j + 2, s, i)
         ELSE <<36>> \o Substitution(replacement, j + 1, s, i)
    ELSE <<replacement[j]>> \o Substitution(replacement, j + 1, s, i)

\* The g flag: every match, left to right, without overlap.
RECURSIVE ReplaceFrom(_, _, _)
ReplaceFrom(s, i, replacement) ==
    IF i > Len(s) THEN <<>>
    ELSE IF MatchesAt(s, i)
    THEN Substitution(replacement, 1, s, i)
         \o ReplaceFrom(s, i + Len(NamePattern), replacement)
    ELSE <<s[i]>> \o ReplaceFrom(s, i + 1, replacement)

\* template.replace(/:name/gi, labelName)
ReplaceName(template, labelName) == ReplaceFrom(template, 1, labelName)

\* ------------------------------------------------------------- Headers.set
\* The code units of an HTTP token.
TokenUnits ==
    {33, 35, 36, 37, 38, 39, 42, 43, 45, 46, 94, 95, 96, 124, 126}
    \cup (48..57) \cup (65..90) \cup (97..122)
\* HTTP whitespace: tab, line feed, carriage return, space.
HTTPWhitespace == {9, 10, 13, 32}

ValidHeaderName(name) ==
    name # <<>> /\ \A i \in 1..Len(name) : name[i] \in TokenUnits

\* The value without its leading and trailing HTTP whitespace.
RECURSIVE NormalizeValue(_)
NormalizeValue(value) ==
    IF value = <<>> THEN value
    ELSE IF Head(value) \in HTTPWhitespace THEN NormalizeValue(Tail(value))
    ELSE IF value[Len(value)] \in HTTPWhitespace
    THEN NormalizeValue(SubSeq(value, 1, Len(value) - 1))
    ELSE value

\* A normalised value is a byte string without NUL, line feed and carriage
\* return.
ValidHeaderValue(value) ==
    \A i \in 1..Len(value) : value[i] \in 0..255 /\ value[i] \notin {0, 10, 13}

\* The header name as the Headers object stores it.
StoredName(name) == [i \in 1..Len(name) |-> LowerCase(name[i])]

\* Date.prototype.toISOString: the instant, tagged as an ISO-8601 text.
toISOString(t) == [iso |-> t]

\* labelMatchersToString of codemirror-promql (imported): the selector text
\* built from its three arguments, kept symbolic.
labelMatchersToString(metricName, matchers, labelName) ==
    [selector |-> metricName, matchers |-> matchers, label |-> labelName]

\* -------------------------------------------------------------- buildRequest
\* A uri is the endpoint and, after a "?", the serialised parameters.
\* Variant of buildRequest that puts the parameters in the query string
\* whatever the configured method.
buildRequestQueryOnly(c, endpoint, params) ==
    [uri |-> [path |-> endpoint, query |-> Some(params)], body |-> None]

buildRequest(c, endpoint, params) ==
    IF c.httpMethod = "GET"
    THEN [uri |-> [path |-> endpoint, query |-> Some(params)], body |-> None]
    ELSE [uri |-> [path |-> endpoint, query |-> None], body |-> Some(params)]

\* ------------------------------------------------------------------ fetchFn
\* The transport, called as this.fetchFn(input, init) with init.headers the
\* client's Headers object itself, of which no copy is taken.  The request
\* has the method of init (GET when init names none) and the body of init.
\* headers is what the transport has read from init.headers: the default
\* transport, fetch, reads it during the call; the "deferred" transport has
\* not read it yet (None).
fetchFn(c, input, init) ==
    [input |-> input,
     method |-> IF init.method # None THEN init.method[1] ELSE "GET",
     body |-> init.body,
     headers |-> IF c.fetchFn = "fetch" THEN Some(init.headers) ELSE None]

\* What the transport can answer: a rejection, or a Response.  The body of
\* a Response is None (no JSON) or Some(envelope); it arrives after the
\* status line, and until it has arrived the body of the record is None.
Rejection == [rejects |-> TRUE, error |-> Error("Failed to fetch"),
              ok |-> FALSE, status |-> 0, statusText |-> "", body |-> None]
Response(ok, status, statusText, body) ==
    [rejects |-> FALSE, error |-> Error(""),
     ok |-> ok, status |-> status, statusText |-> statusText, body |-> body]

\* Response.json(): the parsed body, or a rejection when it is no JSON.
json(res) ==
    IF res.body # None THEN Fulfilled(res.body[1])
    ELSE Rejected(Error("Unexpected token < in JSON at position 0"))

\* ----------------------------------------------------------------- fetchAPI
\* Variant of fetchAPIRequests that sends the request a second time.
fetchAPIRequestsTwice(c, resource, init) ==
    LET request == fetchFn(c, [url |-> c.url, path |-> resource.path,
                               query |-> resource.query], init)
    IN <<request, request>>

\* The transport calls fetchAPI makes for one resource.
fetchAPIRequests(c, resource, init) ==
    << fetchFn(c, [url |-> c.url, path |-> resource.path, query |-> resource.query],
               init) >>

\* Variant of fetchAPIStatus that tolerates 400 and 503 only.
fetchAPIStatusTwoCodes(res) ==
    IF ~res.ok /\ res.status \notin {badRequest, serviceUnavailable}
    THEN Rejected(Error(res.statusText))
    ELSE Fulfilled(res)

\* First .then of fetchAPI: a response that is not ok and has none of the
\* three tolerated status codes throws its status text.
fetchAPIStatus(res) ==
    IF ~res.ok /\ res.status \notin {badRequest, unprocessableEntity, serviceUnavailable}
    THEN Rejected(Error(res.statusText))
    ELSE Fulfilled(res)

\* Variant of fetchAPIEnvelope that looks for the data before the status.
fetchAPIEnvelopeDataFirst(apiRes) ==
    IF apiRes.data = None
    THEN Rejected(Error(MissingDataField))
    ELSE IF apiRes.status = "error"
    THEN Rejected(Error(IF apiRes.error # None THEN apiRes.error[1] ELSE MissingErrorField))
    ELSE Fulfilled(apiRes.data[1])

\* Last .then of fetchAPI: the data of the parsed envelope, or what it throws.
fetchAPIEnvelope(apiRes) ==
    IF apiRes.status = "error"
    THEN Rejected(Error(IF apiRes.error # None THEN apiRes.error[1] ELSE MissingErrorField))
    ELSE IF apiRes.data = None
    THEN Rejected(Error(MissingDataField))
    ELSE Fulfilled(apiRes.data[1])

\* Whether the chain of fetchAPI calls res.json() and waits for the body:
\* the transport answered with a Response and the status check let it pass.
AwaitsBody(res) == ~res.rejects /\ fetchAPIStatus(res).state = "fulfilled"

\* The promise chain of fetchAPI applied to what the transport answered:
\* the settled promise, and whether the body was read (Response.bodyUsed).
fetchAPI(res) ==
    IF res.rejects
    THEN [promise |-> Rejected(res.error), bodyUsed |-> FALSE]
    ELSE LET checked == fetchAPIStatus(res) IN
         IF checked.state = "rejected"
         THEN [promise |-> checked, bodyUsed |-> FALSE]
         ELSE LET parsed == json(checked.value) IN
              IF parsed.state = "rejected"
              THEN [promise |-> parsed, bodyUsed |-> TRUE]
              ELSE [promise |-> fetchAPIEnvelope(parsed.value), bodyUsed |-> TRUE]

\* Variant of catch that notifies the handler and throws the error again.
catchRethrow(c, p, default) ==
    IF p.state = "rejected"
    THEN [promise |-> p, notified |-> IF c.errorHandler THEN <<p.value>> ELSE <<>>]
    ELSE [promise |-> p, notified |-> <<>>]

\* The .catch((error) => { if (this.errorHandler) this.errorHandler(error);
\* return <default>; }) of every operation: the promise it yields and the
\* errors it passed to the error handler.
catch(c, p, default) ==
    IF p.state = "rejected"
    THEN [promise |-> Fulfilled(default),
          notified |-> IF c.errorHandler THEN <<p.value>> ELSE <<>>]
    ELSE [promise |-> p, notified |-> <<>>]

\* ------------------------------------------------- labelNames / labelValues
\* Set.prototype.add on an insertion-ordered set.
SetAdd(set, x) ==
    IF \E i \in 1..Len(set) : set[i] = x THEN set ELSE Append(set, x)

\* Variant of labelNamesOfEntries that keeps the reserved key.
RECURSIVE labelNamesOfEntriesKeepName(_, _, _)
labelNamesOfEntriesKeepName(entries, j, labelNames) ==
    IF j > Len(entries) THEN labelNames
    ELSE labelNamesOfEntriesKeepName(entries, j + 1, SetAdd(labelNames, entries[j][1]))

RECURSIVE labelNamesOfEntries(_, _, _)
labelNamesOfEntries(entries, j, labelNames) ==
    IF j > Len(entries) THEN labelNames
    ELSE IF entries[j][1] = ReservedName
    THEN labelNamesOfEntries(entries, j + 1, labelNames)
    ELSE labelNamesOfEntries(entries, j + 1, SetAdd(labelNames, entries[j][1]))

RECURSIVE labelNamesOfSeries(_, _, _)
labelNamesOfSeries(series, i, labelNames) ==
    IF i > Len(series) THEN labelNames
    ELSE labelNamesOfSeries(series, i + 1,
                            labelNamesOfEntries(series[i].v, 1, labelNames))

\* The .then((series) => ...) of labelNames(metricName).
labelNamesThen(p) ==
    IF p.state = "fulfilled"
    THEN Fulfilled(Arr(labelNamesOfSeries(p.value.v, 1, <<>>)))
    ELSE p

RECURSIVE labelValuesOfEntries(_, _, _, _)
labelValuesOfEntries(entries, j, labelName, labelValues) ==
    IF j > Len(entries) THEN labelValues
    ELSE IF entries[j][1] = ReservedName
    THEN labelValuesOfEntries(entries, j + 1, labelName, labelValues)
    ELSE IF entries[j][1] = labelName
    THEN labelValuesOfEntries(entries, j + 1, labelName, SetAdd(labelValues, entries[j][2]))
    ELSE labelValuesOfEntries(entries, j + 1, labelName, labelValues)

RECURSIVE labelValuesOfSeries(_, _, _, _)
labelValuesOfSeries(series, i, labelName, labelValues) ==
    IF i > Len(series) THEN labelValues
    ELSE labelValuesOfSeries(series, i + 1, labelName,
                             labelValuesOfEntries(series[i].v, 1, labelName, labelValues))

\* The .then((series) => ...) of labelValues(labelName, metricName, matchers).
labelValuesThen(p, labelName) ==
    IF p.state = "fulfilled"
    THEN Fulfilled(Arr(labelValuesOfSeries(p.value.v, 1, labelName, <<>>)))
    ELSE p

\* ------------------------------------------------- the operations' requests
\* Each operation starts by building its request and calling fetchAPI; what
\* it does once fetchAPI has settled is its default (the value its catch
\* returns) and its then ("labelNames", "labelValues" or "none").
Window(c, t) ==
    << <<"start", toISOString(t - c.lookbackInterval)>>, <<"end", toISOString(t)>> >>

seriesCall(c, headers, t, metricName, matchers, labelName) ==
    LET request == buildRequest(c, seriesEndpoint(c),
                       Window(c, t) \o
                       << <<"match[]", labelMatchersToString(metricName, matchers, labelName)>> >>)
    IN [requests |-> fetchAPIRequests(c, request.uri,
                         [method |-> Some(c.httpMethod), body |-> request.body,
                          headers |-> headers]),
        default |-> Arr(<<>>),
        then |-> "none"]

labelNamesCall(c, headers, t, metricName) ==
    IF metricName = None \/ metricName = Some("")
    THEN LET request == buildRequest(c, labelsEndpoint(c), Window(c, t))
         IN [requests |-> fetchAPIRequests(c, request.uri,
                              [method |-> Some(c.httpMethod), body |-> request.body,
                               headers |-> headers]),
             default |-> Arr(<<>>),
             then |-> "none"]
    ELSE [seriesCall(c, headers, t, metricName[1], None, None) EXCEPT !.then = "labelNames"]

labelValuesCall(c, headers, t, labelName, metricName, matchers) ==
    IF metricName = None \/ Len(metricName[1]) = 0
    THEN [requests |-> fetchAPIRequests(c,
                           [path |-> ReplaceName(labelValuesEndpoint(c), labelName),
                            query |-> Some(Window(c, t))],
                           [method |-> None, body |-> None, headers |-> headers]),
          default |-> Arr(<<>>),
          then |-> "none"]
    ELSE [seriesCall(c, headers, t, metricName[1], matchers, Some(labelName))
              EXCEPT !.then = "labelValues"]

metricMetadataCall(c, headers) ==
    [requests |-> fetchAPIRequests(c, [path |-> metricMetadataEndpoint(c), query |-> None],
                         [method |-> None, body |-> None, headers |-> headers]),
     default |-> Obj(<<>>),
     then |-> "none"]

metricNamesCall(c, headers, t) == labelValuesCall(c, headers, t, ReservedName, None, None)

flagsCall(c, headers) ==
    [requests |-> fetchAPIRequests(c, [path |-> flagsEndpoint(c), query |-> None],
                         [method |-> None, body |-> None, headers |-> headers]),
     default |-> Obj(<<>>),
     then |-> "none"]

\* ------------------------------------------------------------------ inputs
\* What new Date() may read, in milliseconds.
Instants == {100000000}
\* "job", "instance", "env" and the values of the series below
Job == <<106, 111, 98>>
Instance == <<105, 110, 115, 116, 97, 110, 99, 101>>
Env == <<101, 110, 118>>
\* Header names: a token in lower case, the same with capitals, and a name
\* that is no token ("thanos tenant").
TenantHeader == <<116, 104, 97, 110, 111, 115, 45, 116, 101, 110, 97, 110, 116>>
HeaderNames == { TenantHeader, <<84, 104, 97, 110, 111, 115, 45, 84, 101, 110, 97, 110, 116>>, <<116, 104, 97, 110, 111, 115, 32, 116, 101, 110, 97, 110, 116>> }
\* Header values: "team-a", "team-b" between blanks, and a value with a
\* line feed in it.
TeamA == <<116, 101, 97, 109, 45, 97>>
TeamB == <<116, 101, 97, 109, 45, 98>>
HeaderValues == { TeamA, <<32>> \o TeamB \o <<32, 9>>, <<116, 10, 97>> }
MetricNames == {None, Some(""), Some("up")}
\* What labelValues is asked for: "job", and "$&" with the patterns of
\* String.prototype.replace in it.
LabelNames == { Job, <<36, 38>> }
SomeMatchers == Some(<< [type |-> "=", name |-> "instance", value |-> "x"] >>)

NameEntry == <<ReservedName, <<117, 112>>>>
SeriesData ==
    { Arr(<<>>),
      Arr(<< Obj(<<NameEntry, <<Job, <<97>>>>, <<Instance, <<120>>>>>>),
             Obj(<<NameEntry, <<Instance, <<121>>>>, <<Job, <<97>>>>>>) >>),
      Arr(<< Obj(<< <<Job, <<98>>>> >>),
             Obj(<<NameEntry, <<Env, <<112>>>>, <<Job, <<97>>>>>>) >>) }
ListData == { Arr(<<Job, Instance>>) }
MetadataData ==
    { Obj(<< <<<<117, 112>>, Arr(<< Obj(<< <<<<116, 121, 112, 101>>, <<103, 97, 117, 103, 101>>>>, <<<<104, 101, 108, 112>>, <<104>>>> >>) >>)>> >>) }
FooBar == Obj(<< <<<<102, 111, 111>>, <<98, 97, 114>>>> >>)
FlagsData == { FooBar }

\* The data an endpoint may answer with, by the invocation that asked.
DataFor(call) ==
    IF call.op = "series" \/ call.then # "none" THEN SeriesData
    ELSE IF call.op = "metricMetadata" THEN MetadataData
    ELSE IF call.op = "flags" THEN FlagsData
    ELSE ListData

Envelopes(D) ==
    { [status |-> s, data |-> d, error |-> e] :
        s \in {"success", "error"},
        d \in {None} \cup {Some(x) : x \in D},
        e \in {None, Some("boom")} }

\* The status lines of a Response: ok, status, statusText.
StatusLines ==
    { <<TRUE, 200, "OK">>,
      <<FALSE, badRequest, "Bad Request">>,
      <<FALSE, unprocessableEntity, "Unprocessable Entity">>,
      <<FALSE, serviceUnavailable, "Service Unavailable">>,
      <<FALSE, 500, "Internal Server Error">> }

\* What the transport may settle its promise with: a rejection, or a
\* Response whose body is still to arrive.
Answers ==
    {Rejection} \cup { Response(l[1], l[2], l[3], None) : l \in StatusLines }

\* The bodies a response with the given status code may carry.  A 200
\* carries every envelope, or a body that is no JSON; any other status a
\* well-formed success envelope or a well-formed error envelope.
Bodies(status, D) ==
    IF status = 200
    THEN {None} \cup { Some(e) : e \in Envelopes(D) }
    ELSE { Some([status |-> "success", data |-> Some(CHOOSE x \in D : x.v # <<>>),
                 error |-> None]),
           Some([status |-> "error", data |-> None, error |-> Some("boom")]) }

NoArgs == [labelName |-> None, metricName |-> None, matchers |-> None]

\* ----------------------------------------------------------------- actions
\* An operation is invoked: it builds its request, calls the transport and
\* returns its promise.  response is what the transport has answered so far.
Invoke(op, args, call) ==
    /\ invoked' = invoked + 1
    /\ transportCalls' = transportCalls + Len(call.requests)
    /\ pending' = pending \cup
          { [id |-> invoked + 1, op |-> op, args |-> args, requests |-> call.requests,
             default |-> call.default, then |-> call.then, response |-> None] }
    /\ UNCHANGED <<client, requestHeaders, settled, strategies, completing, completion>>

\* Variant of setHeader under which a request that was sent keeps reading the
\* shared Headers object.
setHeaderAliased(headerName, headerValue) ==
    LET name == StoredName(headerName)
        value == NormalizeValue(headerValue)
        headers == [n \in DOMAIN requestHeaders \cup {name} |->
                       IF n = name THEN value ELSE requestHeaders[n]]
    IN IF ValidHeaderName(headerName) /\ ValidHeaderValue(value)
       THEN /\ requestHeaders' = headers
            /\ pending' = { [call EXCEPT !.requests =
                                [i \in 1..Len(call.requests) |->
                                    [call.requests[i] EXCEPT !.headers =
                                        IF @ = None THEN @ ELSE Some(headers)]]] :
                            call \in pending }
            /\ UNCHANGED <<client, invoked, transportCalls, settled,
                           strategies, completing, completion>>
       ELSE UNCHANGED vars

\* this.requestHeaders.set(headerName, headerValue): the value, without the
\* whitespace around it, replaces what the name in lower case stood for.  A
\* name that is no token and a value with a forbidden code unit throw a
\* TypeError and leave the headers as they are.
setHeader(headerName, headerValue) ==
    LET name == StoredName(headerName)
        value == NormalizeValue(headerValue)
    IN IF ValidHeaderName(headerName) /\ ValidHeaderValue(value)
       THEN /\ requestHeaders' =
                  [n \in DOMAIN requestHeaders \cup {name} |->
                      IF n = name THEN value ELSE requestHeaders[n]]
            /\ UNCHANGED <<client, invoked, transportCalls, pending, settled,
                           strategies, completing, completion>>
       ELSE UNCHANGED vars

labelNames(metricName) ==
    \E end \in Instants :
        Invoke("labelNames", [NoArgs EXCEPT !.metricName = metricName],
               labelNamesCall(client, requestHeaders, end, metricName))

labelValues(labelName, metricName, matchers) ==
    \E end \in Instants :
        Invoke("labelValues",
               [labelName |-> Some(labelName), metricName |-> metricName,
                matchers |-> matchers],
               labelValuesCall(client, requestHeaders, end, labelName, metricName, matchers))

metricMetadata ==
    Invoke("metricMetadata", NoArgs, metricMetadataCall(client, requestHeaders))

series(metricName, matchers, labelName) ==
    \E end \in Instants :
        Invoke("series",
               [labelName |-> labelName, metricName |-> Some(metricName),
                matchers |-> matchers],
               seriesCall(client, requestHeaders, end, metricName, matchers, labelName))

metricNames ==
    \E end \in Instants :
        Invoke("metricNames", [NoArgs EXCEPT !.labelName = Some(ReservedName)],
               metricNamesCall(client, requestHeaders, end))

flags ==
    Invoke("flags", NoArgs, flagsCall(client, requestHeaders))

\* The promise an operation returned, once the chain of fetchAPI has settled
\* on the answer res: the catch of the operation and, for labelNames and
\* labelValues with a metric name, their then.
Settlement(c, call, res) ==
    LET fetched == fetchAPI(res)
        caught == catch(c, fetched.promise, call.default)
    IN [id |-> call.id, op |-> call.op, args |-> call.args,
        requestCount |-> Len(call.requests),
        then |-> call.then,
        response |-> res,
        bodyUsed |-> fetched.bodyUsed,
        fetched |-> fetched.promise,
        notified |-> caught.notified,
        caught |-> caught.promise,
        promise |-> IF call.then = "labelNames" THEN labelNamesThen(caught.promise)
                    ELSE IF call.then = "labelValues"
                    THEN labelValuesThen(caught.promise, call.args.labelName[1])
                    ELSE caught.promise]

\* The deferred transport sends the request of a pending invocation: the
\* injected function resumes and reads init.headers, the client's Headers
\* object, as it is now.
TransportSends(call) ==
    /\ call \in pending
    /\ \E i \in 1..Len(call.requests) : call.requests[i].headers = None
    /\ pending' = (pending \ {call}) \cup
          { [call EXCEPT !.requests =
                [i \in 1..Len(call.requests) |->
                    [call.requests[i] EXCEPT !.headers =
                        IF @ = None THEN Some(requestHeaders) ELSE @]]] }
    /\ UNCHANGED <<client, requestHeaders, invoked, transportCalls, settled,
                   strategies, completing, completion>>

\* The transport settles the promise of a request it has sent.  A rejection
\* and a Response that fails the status check run through the chain of
\* fetchAPI to the catch of the operation; any other Response has its
\* json() called, and the chain waits for the body.
TransportAnswers(call, res) ==
    /\ call \in pending
    /\ call.response = None
    /\ call.requests # <<>>
    /\ \A i \in 1..Len(call.requests) : call.requests[i].headers # None
    /\ IF AwaitsBody(res)
       THEN /\ pending' = (pending \ {call}) \cup {[call EXCEPT !.response = Some(res)]}
            /\ UNCHANGED settled
       ELSE /\ pending' = pending \ {call}
            /\ settled' = Some(Settlement(client, call, res))
    /\ UNCHANGED <<client, requestHeaders, invoked, transportCalls,
                   strategies, completing, completion>>

\* The body of a Response has arrived: the promise of json() settles, the
\* chain of fetchAPI runs on to the catch of the operation and its then.
BodyArrives(call, body) ==
    /\ call \in pending
    /\ call.response # None
    /\ settled' = Some(Settlement(client, call, [call.response[1] EXCEPT !.body = body]))
    /\ pending' = pending \ {call}
    /\ UNCHANGED <<client, requestHeaders, invoked, transportCalls,
                   strategies, completing, completion>>

Init ==
    /\ \E config \in Configs : client = Constructor(config)
    /\ requestHeaders = EmptyHeaders
    /\ invoked = 0
    /\ transportCalls = 0
    /\ pending = {}
    /\ settled = None
    /\ strategies = <<>>
    /\ completing = <<>>
    /\ completion = None

Next ==
    \/ setHeader(TenantHeader, TeamA)
    \/ \E m \in MetricNames : invoked < MaxCalls /\ labelNames(m)
    \/ \E m \in MetricNames :
          invoked < MaxCalls
          /\ labelValues(Job, m, IF m = Some("up") THEN SomeMatchers ELSE None)
    \/ \E l \in LabelNames : invoked < MaxCalls /\ labelValues(l, None, None)
    \/ invoked < MaxCalls /\ metricMetadata
    \/ \E l \in {None, Some(Job)} :
          invoked < MaxCalls
          /\ series("up", IF l = None THEN None ELSE SomeMatchers, l)
    \/ invoked < MaxCalls /\ metricNames
    \/ invoked < MaxCalls /\ flags
    \/ \E call \in pending : TransportSends(call)
    \/ \E call \in pending : \E res \in Answers : TransportAnswers(call, res)
    \/ \E call \in pending :
          \E body \in Bodies(IF call.response # None THEN call.response[1].status ELSE 200,
                             DataFor(call)) :
              BodyArrives(call, body)

Spec == Init /\ [][Next]_vars

\* --------------------------------------------------- overlapping invocations
\* The same operations with up to MaxOverlap invocations in one behaviour, so
\* that several are pending at once.  Each operation is invoked with one or
\* two argument lists and answered by a rejection, a success or a failure.
OverlapConfigs ==
    { Config(TRUE, None, None, None), Config(FALSE, None, Some("GET"), None) }

OverlapAnswers ==
    { Rejection,
      Response(TRUE, 200, "OK", None),
      Response(FALSE, 500, "Internal Server Error", None) }

OverlapBodies(D) ==
    { Some([status |-> "success", data |-> Some(CHOOSE x \in D : x.v # <<>>),
            error |-> None]) }

InitOverlap ==
    /\ \E config \in OverlapConfigs : client = Constructor(config)
    /\ requestHeaders = EmptyHeaders
    /\ invoked = 0
    /\ transportCalls = 0
    /\ pending = {}
    /\ settled = None
    /\ strategies = <<>>
    /\ completing = <<>>
    /\ completion = None

NextOverlap ==
    \/ setHeader(TenantHeader, TeamA)
    \/ \E m \in MetricNames : invoked < MaxOverlap /\ labelNames(m)
    \/ \E m \in {None, Some("up")} : invoked < MaxOverlap /\ labelValues(Job, m, None)
    \/ invoked < MaxOverlap /\ metricMetadata
    \/ invoked < MaxOverlap /\ series("up", None, None)
    \/ invoked < MaxOverlap /\ metricNames
    \/ invoked < MaxOverlap /\ flags
    \/ \E call \in pending : \E res \in OverlapAnswers : TransportAnswers(call, res)
    \/ \E call \in pending : \E body \in OverlapBodies(DataFor(call)) :
          BodyArrives(call, body)

SpecOverlap == InitOverlap /\ [][NextOverlap]_vars

\* ------------------------------------------------ setHeader against requests
\* setHeader with every header name and value of the inputs, between the
\* invocations and the steps of the transport, with the default transport
\* and with the deferred one.  The operations are one of each path to the
\* transport: labelNames and series (a request of buildRequest),
\* labelValues and flags (a request without method and body); metricNames
\* is labelValues and metricMetadata calls fetchAPI as flags does.
HeaderConfigs ==
    { Config(FALSE, None, None, None), Config(FALSE, None, None, Some("deferred")) }

HeaderAnswers == { Rejection, Response(TRUE, 200, "OK", None) }

InitHeaders ==
    /\ \E config \in HeaderConfigs : client = Constructor(config)
    /\ requestHeaders = EmptyHeaders
    /\ invoked = 0
    /\ transportCalls = 0
    /\ pending = {}
    /\ settled = None
    /\ strategies = <<>>
    /\ completing = <<>>
    /\ completion = None

NextHeaders ==
    \/ \E n \in HeaderNames, v \in HeaderValues : setHeader(n, v)
    \/ invoked < MaxOverlap /\ labelNames(None)
    \/ invoked < MaxOverlap /\ labelValues(Job, None, None)
    \/ invoked < MaxOverlap /\ series("up", None, None)
    \/ invoked < MaxOverlap /\ flags
    \/ \E call \in pending : TransportSends(call)
    \/ \E call \in pending : \E res \in HeaderAnswers : TransportAnswers(call, res)
    \/ \E call \in pending : \E body \in OverlapBodies(DataFor(call)) :
          BodyArrives(call, body)

SpecHeaders == InitHeaders /\ [][NextHeaders]_vars

\* ---------------------------------------------------- HistoryCompleteStrategy
\* A CompletionResult is a record with the identity of the object (ref); the
\* value null is None.  strategies[s] is the array that the s-th strategy
\* object holds as its queryHistory: the array its constructor was given.

\* Bounds: the number of entries of a query history, of strategy objects
\* constructed, and of promQL() calls waiting for their wrapped strategy.
MaxHistory == 2
MaxStrategies == 1
MaxCompleting == 1

\* q.length < 80 and q.slice(0, 76)
MaxLabelLength == 80
TruncatedLabelLength == 76
\* '...'
Ellipsis == <<46, 46, 46>>

\* Variant of historyOption that keeps an entry of MaxLabelLength code units.
historyOptionInclusive(q) ==
    [label |-> IF Len(q) <= MaxLabelLength
               THEN q
               ELSE SubSeq(q, 1, TruncatedLabelLength) \o Ellipsis,
     detail |-> "past query",
     apply |-> q,
     info |-> IF Len(q) <= MaxLabelLength THEN None ELSE Some(q)]

\* One option of historyItems.options, built from the history entry q.
historyOption(q) ==
    [label |-> IF Len(q) < MaxLabelLength
               THEN q
               ELSE SubSeq(q, 1, TruncatedLabelLength) \o Ellipsis,
     detail |-> "past query",
     apply |-> q,
     info |-> IF Len(q) < MaxLabelLength THEN None ELSE Some(q)]

\* Variant of promQLResult that takes start from the syntax node alone.
promQLResultTreeStart(history, context, res) ==
    LET start == context.treeFrom
    IN IF start # 0
       THEN res
       ELSE LET historyItems ==
                    [ref |-> "historyItems",
                     from |-> start,
                     to |-> context.pos,
                     options |-> [i \in 1..Len(history) |-> historyOption(history[i])],
                     validFor |-> "^[a-zA-Z0-9_:]+$"]
            IN IF res # None
               THEN Some([historyItems EXCEPT !.options = @ \o res[1].options])
               ELSE Some(historyItems)

\* Variant of promQLResult that puts the options of res first.
promQLResultBaseFirst(history, context, res) ==
    LET start == IF res # None THEN res[1].from ELSE context.treeFrom
    IN IF start # 0
       THEN res
       ELSE LET historyItems ==
                    [ref |-> "historyItems",
                     from |-> start,
                     to |-> context.pos,
                     options |-> [i \in 1..Len(history) |-> historyOption(history[i])],
                     validFor |-> "^[a-zA-Z0-9_:]+$"]
            IN IF res # None
               THEN Some([historyItems EXCEPT !.options = res[1].options \o @])
               ELSE Some(historyItems)

\* The callback of promQL: from the result res of the wrapped strategy (None
\* for null), the context (cursor position pos, start offset treeFrom of the
\* syntax node resolved at the cursor) and the queryHistory array as it is
\* when the callback runs, to the value promQL resolves to.
promQLResult(history, context, res) ==
    LET start == IF res # None THEN res[1].from ELSE context.treeFrom
    IN IF start # 0
       THEN res
       ELSE LET historyItems ==
                    [ref |-> "historyItems",
                     from |-> start,
                     to |-> context.pos,
                     options |-> [i \in 1..Len(history) |-> historyOption(history[i])],
                     validFor |-> "^[a-zA-Z0-9_:]+$"]
            IN IF res # None
               THEN Some([historyItems EXCEPT !.options = @ \o res[1].options])
               ELSE Some(historyItems)

\* ------------------------------------------------------------------ inputs
\* A string of n code units, all letters, no two neighbours alike.
Str(n) == [i \in 1..n |-> 97 + (i % 26)]
\* Entries just below, at and just above the label limit.
HistoryEntries ==
    { Str(MaxLabelLength - 1), Str(MaxLabelLength), Str(MaxLabelLength + 1) }
Histories ==
    UNION { [1..n -> HistoryEntries] : n \in 0..MaxHistory }

Contexts == { [pos |-> 0, treeFrom |-> 0], [pos |-> 3, treeFrom |-> 0],
              [pos |-> 3, treeFrom |-> 2] }
BaseOption(label) == [label |-> label, detail |-> "", apply |-> label, info |-> None]
BaseOptions == <<BaseOption(<<117, 112>>), BaseOption(<<103, 111>>)>>
\* What the wrapped strategy may resolve to for a context.
InnerResults(context) ==
    {None} \cup
    { Some([ref |-> "res", from |-> f, to |-> context.pos, options |-> BaseOptions,
            validFor |-> ""]) :
        f \in { x \in {0, 2} : x <= context.pos } }

\* ----------------------------------------------------------------- actions
\* new HistoryCompleteStrategy(complete, queryHistory): one more strategy
\* object, which holds the array it was given.
NewHistoryCompleteStrategy(history) ==
    /\ strategies' = Append(strategies, history)
    /\ completion' = None
    /\ UNCHANGED <<completing, client, requestHeaders, invoked, transportCalls,
                   pending, settled>>

\* The owner of the array that strategy s was given appends an entry to it.
queryHistoryPush(s, q) ==
    /\ s \in 1..Len(strategies)
    /\ strategies' = [strategies EXCEPT ![s] = Append(@, q)]
    /\ completion' = None
    /\ UNCHANGED <<completing, client, requestHeaders, invoked, transportCalls,
                   pending, settled>>

\* promQL(context) on strategy s: the wrapped strategy is called and the
\* callback is attached to what it returns.
promQL(s, context) ==
    /\ s \in 1..Len(strategies)
    /\ completing' = Append(completing, [strategy |-> s, context |-> context])
    /\ completion' = None
    /\ UNCHANGED <<strategies, client, requestHeaders, invoked, transportCalls,
                   pending, settled>>

\* The wrapped strategy of the i-th waiting call has resolved to res: the
\* callback runs and reads this.queryHistory.  completion is the value this
\* step resolved the promise of promQL to.
promQLThen(i, res) ==
    /\ i \in 1..Len(completing)
    /\ LET call == completing[i] IN
          completion' = Some([strategy |-> call.strategy, context |-> call.context,
                              inner |-> res,
                              result |-> promQLResult(strategies[call.strategy],
                                                      call.context, res)])
    /\ completing' = [j \in 1..(Len(completing) - 1) |->
                         IF j < i THEN completing[j] ELSE completing[j + 1]]
    /\ UNCHANGED <<strategies, client, requestHeaders, invoked, transportCalls,
                   pending, settled>>

InitHistory ==
    /\ client = Constructor(Config(FALSE, None, None, None))
    /\ requestHeaders = EmptyHeaders
    /\ invoked = 0
    /\ transportCalls = 0
    /\ pending = {}
    /\ settled = None
    /\ strategies = <<>>
    /\ completing = <<>>
    /\ completion = None

NextHistory ==
    \/ \E history \in Histories :
          Len(strategies) < MaxStrategies /\ NewHistoryCompleteStrategy(history)
    \/ \E s \in 1..Len(strategies), q \in HistoryEntries :
          Len(strategies[s]) < MaxHistory /\ queryHistoryPush(s, q)
    \/ \E s \in 1..Len(strategies), context \in Contexts :
          Len(completing) < MaxCompleting /\ promQL(s, context)
    \/ \E i \in 1..Len(completing) : \E res \in InnerResults(completing[i].context) :
          promQLThen(i, res)

SpecHistory == InitHistory /\ [][NextHistory]_vars

\* ================================================================== claims
\* The failures of the claims, stated on the transport's answer alone.
TransportRejection(res) == res.rejects
NotTolerated(res) == ~res.rejects /\ ~res.ok /\ res.status \notin {400, 422, 503}
ReachesParsing(res) == ~res.rejects /\ (res.ok \/ res.status \in {400, 422, 503})
Unparsable(res) == ReachesParsing(res) /\ res.body = None
ErrorEnvelope(res) ==
    ReachesParsing(res) /\ res.body # None /\ res.body[1].status = "error"
SuccessWithoutData(res) ==
    /\ ReachesParsing(res) /\ res.body # None
    /\ res.body[1].status = "success" /\ res.body[1].data = None
IsFailure(res) ==
    \/ TransportRejection(res)
    \/ NotTolerated(res)
    \/ Unparsable(res)
    \/ ErrorEnvelope(res)
    \/ SuccessWithoutData(res)

\* The typed empty default of an operation: {} for the two mapping-returning
\* operations, [] for the others.
EmptyDefault(op) ==
    IF op \in {"metricMetadata", "flags"} THEN Obj(<<>>) ELSE Arr(<<>>)

\* C1: the promise of a public operation never rejects; on every kind of
\* failure the error handler, when configured, is called exactly once with
\* the failure (never when not configured, never without a failure) and the
\* operation resolves to its typed empty default; an error envelope with the
\* error "boom" is notified as a failure with the message "boom".
C1_DegradesToDefault ==
    settled # None =>
        LET s == settled[1] IN
        /\ s.promise.state = "fulfilled"
        /\ IsFailure(s.response) =>
              /\ s.fetched.state = "rejected"
              /\ s.notified = IF client.errorHandler THEN <<s.fetched.value>> ELSE <<>>
              /\ s.promise.value = EmptyDefault(s.op)
        /\ (ErrorEnvelope(s.response) /\ s.response.body[1].error = Some("boom")) =>
              s.fetched.value = Error("boom")
        /\ ~IsFailure(s.response) => s.notified = <<>>

C1_Witness ==
    /\ settled # None
    /\ client.errorHandler
    /\ settled[1].op = "metricMetadata"
    /\ ErrorEnvelope(settled[1].response)
    /\ settled[1].notified = <<Error("boom")>>
    /\ settled[1].promise = Fulfilled(Obj(<<>>))

\* C2: a response that is not ok and has a status other than 400, 422 and 503
\* fails with the status text and its body is never read; a response that is
\* ok or has one of these three codes has its body read, and a 400, 422 or
\* 503 carrying a success envelope with data yields that data.
C2_StatusGate ==
    settled # None =>
        LET s == settled[1]
            res == s.response
        IN
        /\ NotTolerated(res) =>
              s.fetched = Rejected(Error(res.statusText)) /\ ~s.bodyUsed
        /\ ReachesParsing(res) => s.bodyUsed
        /\ (/\ ~res.rejects
            /\ res.status \in {400, 422, 503}
            /\ res.body # None
            /\ res.body[1].status = "success"
            /\ res.body[1].data # None) =>
              s.fetched = Fulfilled(res.body[1].data[1])

C2_Witness ==
    /\ settled # None
    /\ settled[1].response.status = 422
    /\ ~settled[1].response.ok
    /\ settled[1].response.body # None
    /\ settled[1].response.body[1].status = "success"
    /\ settled[1].fetched.state = "fulfilled"
    /\ settled[1].fetched.value.v # <<>>
    /\ settled[1].notified = <<>>

\* C3: for a parsed envelope: with status "error" the failure's message is the
\* envelope's error, or the fixed fallback text (not blank) when there is no
\* error field, whether or not data is there; with status "success" and no
\* data the failure is the fixed "missing data" message; otherwise the result
\* is the envelope's data unchanged, so that flags() on
\* {status: "success", data: {"foo": "bar"}} resolves to {"foo": "bar"}.
C3_EnvelopeOutcome ==
    settled # None =>
        LET s == settled[1]
            res == s.response
        IN (ReachesParsing(res) /\ res.body # None) =>
              LET e == res.body[1] IN
              /\ e.status = "error" =>
                    /\ s.fetched.state = "rejected"
                    /\ s.fetched.value.t = "error"
                    /\ s.fetched.value.v =
                          IF e.error # None THEN e.error[1]
                          ELSE "missing \"error\" field in response JSON"
                    /\ (e.error = None => s.fetched.value.v # "")
              /\ (e.status = "success" /\ e.data = None) =>
                    s.fetched = Rejected(Error("missing \"data\" field in response JSON"))
              /\ (e.status # "error" /\ e.data # None) =>
                    s.fetched = Fulfilled(e.data[1])
              /\ (s.op = "flags" /\ e.status = "success"
                  /\ e.data = Some(FooBar)) =>
                    s.promise = Fulfilled(FooBar)

C3_Witness ==
    /\ settled # None
    /\ ReachesParsing(settled[1].response)
    /\ settled[1].response.body = Some([status |-> "error", data |-> None, error |-> None])
    /\ settled[1].fetched = Rejected(Error("missing \"error\" field in response JSON"))

\* The requests of the claims about request construction.
ParamKeys(params) == { params[i][1] : i \in 1..Len(params) }
ExpectedKeys(request) ==
    IF request.input.path = DefaultApiPrefix \o SeriesSuffix
    THEN {"start", "end", "match[]"}
    ELSE {"start", "end"}
\* The shared rule: GET puts every parameter in the query string and sends no
\* body; POST puts every parameter in the body and leaves the query empty.
FollowsMethodRule(request) ==
    /\ client.httpMethod = "GET" =>
          /\ request.method = "GET"
          /\ request.body = None
          /\ request.input.query # None
          /\ ParamKeys(request.input.query[1]) = ExpectedKeys(request)
    /\ client.httpMethod = "POST" =>
          /\ request.method = "POST"
          /\ request.input.query = None
          /\ request.body # None
          /\ ParamKeys(request.body[1]) = ExpectedKeys(request)
\* A request with the parameters in the query string and no body, sent as GET.
QueryOnly(request) ==
    /\ request.method = "GET"
    /\ request.body = None
    /\ request.input.query # None
    /\ ParamKeys(request.input.query[1]) = ExpectedKeys(request)
\* labelValues without a metric name, which metricNames() is too.
DirectLabelValues(call) ==
    \/ call.op = "metricNames"
    \/ call.op = "labelValues" /\ call.args.metricName \in {None, Some("")}

\* C4 as stated: every label names, label values and series request follows
\* the shared rule of the configured httpMethod.
C4_AsStated ==
    \A call \in pending :
        call.op \in {"labelNames", "labelValues", "series"} =>
            \A i \in 1..Len(call.requests) : FollowsMethodRule(call.requests[i])

\* C4, amended: the label names request and every series request (those of
\* series(), of labelNames(metricName) and of labelValues(labelName,
\* metricName)) follow the shared rule of the configured httpMethod; the
\* request of labelValues without a metric name (and so of metricNames())
\* is a GET with every parameter in the query string and no body, whatever
\* the configured httpMethod.
C4_BuildRequestRule ==
    \A call \in pending :
        call.op \in {"labelNames", "labelValues", "series", "metricNames"} =>
            \A i \in 1..Len(call.requests) :
                IF DirectLabelValues(call)
                THEN QueryOnly(call.requests[i])
                ELSE FollowsMethodRule(call.requests[i])

C4_Witness ==
    /\ client.httpMethod = "POST"
    /\ \E call \in pending :
          /\ call.op = "labelValues"
          /\ call.args.metricName = Some("up")
          /\ call.requests[1].method = "POST"
          /\ call.requests[1].input.query = None
          /\ ParamKeys(call.requests[1].body[1]) = {"start", "end", "match[]"}

\* The parameters of a request, wherever it carries them.
ParamsOf(request) ==
    IF request.body # None THEN request.body[1] ELSE request.input.query[1]

\* C5: every invocation issues exactly one transport request, before and
\* after it settles, whether it succeeded or failed, so that the number of
\* transport calls always equals the number of invocations (overlapping
\* invocations with the same arguments included); labelNames() with no or an
\* empty metric name asks the labels endpoint with start = end - lookback,
\* labelNames(metricName) asks the series endpoint.
C5_OneRequestPerInvocation ==
    /\ transportCalls = invoked
    /\ \A call \in pending :
          /\ Len(call.requests) = 1
          /\ call.op = "labelNames" =>
                IF call.args.metricName \in {None, Some("")}
                THEN /\ call.requests[1].input.path = DefaultApiPrefix \o LabelsSuffix
                     /\ LET params == ParamsOf(call.requests[1]) IN
                        /\ Len(params) = 2
                        /\ params[1][1] = "start" /\ params[2][1] = "end"
                        /\ params[1][2].iso = params[2][2].iso - client.lookbackInterval
                ELSE call.requests[1].input.path = DefaultApiPrefix \o SeriesSuffix
    /\ settled # None => settled[1].requestCount = 1

C5_Witness ==
    /\ transportCalls = 2
    /\ \E a \in pending, b \in pending :
          /\ a.id # b.id
          /\ a.op = "labelNames" /\ b.op = "labelNames"
          /\ a.args = b.args /\ a.args.metricName = None
          /\ a.requests = b.requests

\* C6: labelNames(metricName) with a metric name resolves to the keys that
\* occur in at least one record of what series(metricName) resolved to,
\* without "__name__" and without repetition; it resolves to the empty list
\* when series(metricName) degraded to the empty list.
C6_LabelNamesOfSeries ==
    settled # None =>
        LET s == settled[1] IN
        (s.op = "labelNames" /\ s.args.metricName \notin {None, Some("")}) =>
            LET records == s.caught.value.v
                result == s.promise.value.v
                keys == UNION { { records[i].v[j][1] : j \in 1..Len(records[i].v) } :
                                i \in 1..Len(records) }
            IN
            /\ s.promise.state = "fulfilled"
            /\ s.promise.value.t = "array"
            /\ { result[k] : k \in 1..Len(result) } = keys \ {ReservedName}
            /\ Len(result) = Cardinality(keys \ {ReservedName})
            /\ IsFailure(s.response) => result = <<>>

C6_Witness ==
    /\ settled # None
    /\ settled[1].op = "labelNames"
    /\ settled[1].args.metricName = Some("up")
    /\ Len(settled[1].caught.value.v) = 2
    /\ settled[1].promise = Fulfilled(Arr(<<Job, Instance>>))

StartOf(c) == IF c.inner # None THEN c.inner[1].from ELSE c.context.treeFrom
\* The history array of the strategy whose callback ran in the last step.
HistoryOf(c) == strategies[c.strategy]

\* C7 as stated: at start 0 an entry of 80 code units is returned unmodified
\* and without info, an entry of 81 with its first 76 code units and the
\* ellipsis as label and the entry as info, both with the entry as apply.
C7_AsStated ==
    (completion # None /\ StartOf(completion[1]) = 0) =>
        \A i \in 1..Len(HistoryOf(completion[1])) :
            LET q == HistoryOf(completion[1])[i]
                o == completion[1].result[1].options[i]
            IN
            /\ Len(q) = 80 => (o.label = q /\ o.info = None /\ o.apply = q)
            /\ Len(q) = 81 =>
                  /\ o.label = SubSeq(q, 1, 76) \o <<46, 46, 46>>
                  /\ o.info = Some(q)
                  /\ o.apply = q

\* C7, amended: at start 0 an entry of 79 code units is returned unmodified
\* and without info; an entry of 80, like one of 81, is returned with its
\* first 76 code units and the ellipsis as label and the entry as info; in
\* every case apply is the whole entry.
C7_TruncationAt80 ==
    (completion # None /\ StartOf(completion[1]) = 0) =>
        \A i \in 1..Len(HistoryOf(completion[1])) :
            LET q == HistoryOf(completion[1])[i]
                o == completion[1].result[1].options[i]
            IN
            /\ o.apply = q
            /\ Len(q) = 79 => (o.label = q /\ o.info = None)
            /\ Len(q) \in {80, 81} =>
                  /\ o.label = SubSeq(q, 1, 76) \o <<46, 46, 46>>
                  /\ o.info = Some(q)

C7_Witness ==
    /\ completion # None
    /\ StartOf(completion[1]) = 0
    /\ \E i \in 1..Len(HistoryOf(completion[1])) :
          /\ Len(HistoryOf(completion[1])[i]) = 80
          /\ Len(completion[1].result[1].options[i].label) = 79
          /\ completion[1].result[1].options[i].info = Some(HistoryOf(completion[1])[i])

\* C8: whenever start is not 0 the result is inner itself, the same object
\* (null when inner is null), whatever the history.
C8_NonzeroStartReturnsInner ==
    (completion # None /\ StartOf(completion[1]) # 0) =>
        completion[1].result = completion[1].inner

C8_Witness ==
    /\ completion # None
    /\ Len(HistoryOf(completion[1])) = 2
    /\ completion[1].inner # None
    /\ completion[1].inner[1].from = 2
    /\ completion[1].context.treeFrom = 0
    /\ completion[1].result # None
    /\ completion[1].result[1].ref = "res"
    /\ Len(completion[1].result[1].options) = 2

\* C9: whenever start is 0 the options are one option per history entry, in
\* the order of the history (repetitions kept), followed by the options of
\* inner in their order when inner is not null, and nothing else.
C9_HistoryThenInner ==
    (completion # None /\ StartOf(completion[1]) = 0) =>
        LET c == completion[1]
            options == c.result[1].options
            base == IF c.inner # None THEN c.inner[1].options ELSE <<>>
            history == HistoryOf(c)
            n == Len(history)
        IN
        /\ c.result # None
        /\ Len(options) = n + Len(base)
        /\ \A i \in 1..n :
              options[i].apply = history[i] /\ options[i].detail = "past query"
        /\ \A j \in 1..Len(base) : options[n + j] = base[j]

C9_Witness ==
    /\ completion # None
    /\ StartOf(completion[1]) = 0
    /\ completion[1].inner # None
    /\ Len(completion[1].inner[1].options) = 2
    /\ Len(HistoryOf(completion[1])) = 2
    /\ HistoryOf(completion[1])[1] = HistoryOf(completion[1])[2]
    /\ Len(completion[1].result[1].options) = 4

====
